---------------------------- MODULE Spec2Model ----------------------------
(***************************************************************************)
(* A model of merge_epubs (src/merge_epubs.py): several EPUB volumes are   *)
(* merged into one archive; manifest ids and hrefs are namespaced per      *)
(* volume, the spines are concatenated and one navigation document is      *)
(* synthesized.                                                            *)
(*                                                                         *)
(* A Python str is a sequence of one-character strings, so that prefixing, *)
(* splitting at '#', percent-decoding and space-encoding are computed      *)
(* character by character as the code computes them.                       *)
(***************************************************************************)
EXTENDS Integers, Sequences, FiniteSets, TLC

(***************************************************************************)
(* Bounds of the model.                                                    *)
(***************************************************************************)
\* the longest input list handed to merge_epubs
MaxVols == 2

(***************************************************************************)
(* Strings.                                                                *)
(***************************************************************************)
Digits == <<"0", "1", "2", "3", "4", "5", "6", "7", "8", "9">>

\* str(n) for a natural number n, as the f-strings of merge_epubs format it
RECURSIVE ToStr(_)
ToStr(n) ==
    IF n < 10 THEN <<Digits[n + 1]>>
    ELSE ToStr(n \div 10) \o <<Digits[(n % 10) + 1]>>

\* the index of the first occurrence of character c in s, 0 when absent
FirstIndex(s, c) ==
    IF \E i \in 1..Len(s) : s[i] = c
    THEN CHOOSE i \in 1..Len(s) : s[i] = c /\ \A j \in 1..(i - 1) : s[j] # c
    ELSE 0

\* s.partition(c): <<before, separator, after>>, split at the first c
Partition(s, c) ==
    LET i == FirstIndex(s, c)
    IN  IF i = 0 THEN <<s, <<>>, <<>>>>
        ELSE <<SubSeq(s, 1, i - 1), <<c>>, SubSeq(s, i + 1, Len(s))>>

\* the printable ASCII characters, code 32 first (the grave accent, code 96,
\* is written by its code)
Printable ==
    <<" ", "!", "\"", "#", "$", "%", "&", "'", "(", ")", "*", "+", ",", "-",
      ".", "/", "0", "1", "2", "3", "4", "5", "6", "7", "8", "9", ":", ";",
      "<", "=", ">", "?", "@", "A", "B", "C", "D", "E", "F", "G", "H", "I",
      "J", "K", "L", "M", "N", "O", "P", "Q", "R", "S", "T", "U", "V", "W",
      "X", "Y", "Z", "[", "\\", "]", "^", "_", "\\x96", "a", "b", "c", "d", "e",
      "f", "g", "h", "i", "j", "k", "l", "m", "n", "o", "p", "q", "r", "s",
      "t", "u", "v", "w", "x", "y", "z", "{", "|", "}", "~">>

HexDigits ==
    <<"0", "1", "2", "3", "4", "5", "6", "7", "8", "9",
      "a", "b", "c", "d", "e", "f", "A", "B", "C", "D", "E", "F">>

IsHex(c) == \E i \in 1..Len(HexDigits) : HexDigits[i] = c

HexVal(c) ==
    LET i == CHOOSE k \in 1..Len(HexDigits) : HexDigits[k] = c
    IN  IF i <= 16 THEN i - 1 ELSE i - 7

\* the character with code n; a code outside printable ASCII is kept apart
\* from every printable character
Chr(n) ==
    IF n >= 32 /\ n <= 126 THEN Printable[n - 31]
    ELSE "\\x" \o ToString(n)

\* urllib.parse.unquote: every %XX with two hex digits becomes the character
\* it encodes, anything else is kept
RECURSIVE unquote(_)
unquote(s) ==
    IF s = <<>> THEN <<>>
    ELSE IF /\ s[1] = "%"
            /\ Len(s) >= 3
            /\ IsHex(s[2])
            /\ IsHex(s[3])
         THEN <<Chr(16 * HexVal(s[2]) + HexVal(s[3]))>>
                  \o unquote(SubSeq(s, 4, Len(s)))
         ELSE <<s[1]>> \o unquote(Tail(s))

\* s.replace(" ", "%20")
RECURSIVE EncodeSpaces(_)
EncodeSpaces(s) ==
    IF s = <<>> THEN <<>>
    ELSE (IF s[1] = " " THEN <<"%", "2", "0">> ELSE <<s[1]>>)
             \o EncodeSpaces(Tail(s))

\* " " in s
HasSpace(s) == \E i \in 1..Len(s) : s[i] = " "

(***************************************************************************)
(* POSIX paths (pathlib.PurePosixPath).                                    *)
(***************************************************************************)
\* the components of a path: split at "/", empty and "." components dropped
RECURSIVE PathParts(_)
PathParts(s) ==
    IF s = <<>> THEN <<>>
    ELSE LET p    == Partition(s, "/")
             rest == PathParts(p[3])
         IN  IF p[1] = <<>> \/ p[1] = <<".">> THEN rest ELSE <<p[1]>> \o rest

RECURSIVE JoinParts(_)
JoinParts(parts) ==
    IF parts = <<>> THEN <<>>
    ELSE IF Len(parts) = 1 THEN parts[1]
    ELSE parts[1] \o <<"/">> \o JoinParts(Tail(parts))

IsAbsolute(s) == s # <<>> /\ s[1] = "/"

\* str(PurePosixPath(s)): the normalised spelling of a path
PosixStr(s) ==
    LET body == JoinParts(PathParts(s))
    IN  IF IsAbsolute(s) THEN <<"/">> \o body
        ELSE IF body = <<>> THEN <<".">> ELSE body

\* PurePosixPath(s).parent.as_posix()
PosixParent(s) ==
    LET parts == PathParts(s)
        up    == IF parts = <<>> THEN <<>> ELSE SubSeq(parts, 1, Len(parts) - 1)
    IN  IF IsAbsolute(s) THEN <<"/">> \o JoinParts(up)
        ELSE IF up = <<>> THEN <<".">> ELSE JoinParts(up)

\* str(PurePosixPath(dir) / path): an absolute path replaces dir
PosixJoin(dir, path) ==
    IF IsAbsolute(path) THEN PosixStr(path)
    ELSE PosixStr(dir \o <<"/">> \o path)

\* the directory of a document, "" when it lies beside the descriptor
DirOf(path) ==
    LET d == PosixParent(path)
    IN  IF d = <<".">> THEN <<>> ELSE d

\* f"{base}/{rel}" if base else rel
Under(base, rel) == IF base # <<>> THEN base \o <<"/">> \o rel ELSE rel

(***************************************************************************)
(* Finite maps (Python dict) from strings to strings.                      *)
(***************************************************************************)
EmptyMap == [k \in {} |-> <<>>]

\* m[k] = v
Put(m, k, v) == [x \in DOMAIN m \cup {k} |-> IF x = k THEN v ELSE m[x]]

\* m.get(k); None and "" are both written <<>>: every caller only tests
\* the result for truth
Get(m, k) == IF k \in DOMAIN m THEN m[k] ELSE <<>>

(***************************************************************************)
(* Constants of the program.                                               *)
(***************************************************************************)
MimetypePath == <<"m", "i", "m", "e", "t", "y", "p", "e">>

ContainerPath ==
    <<"M", "E", "T", "A", "-", "I", "N", "F", "/",
      "c", "o", "n", "t", "a", "i", "n", "e", "r", ".", "x", "m", "l">>

\* nav_href of the synthesized navigation document
NavHref ==
    <<"n", "a", "v", "-", "m", "e", "r", "g", "e", "d", ".",
      "x", "h", "t", "m", "l">>

\* the id of the synthesized navigation entry
NavId == <<"n", "a", "v">>

(***************************************************************************)
(* One volume's share of the merge: _copy_manifest_items.                  *)
(***************************************************************************)
\* a variant of IdPrefix: one prefix for every later volume
IdPrefixShared(k) == IF k = 0 THEN <<>> ELSE <<"v", "_">>

\* id_prefix of volume vol_idx (0-based)
IdPrefix(k) == IF k = 0 THEN <<>> ELSE <<"v">> \o ToStr(k) \o <<"_">>

\* a variant of PathPrefix: volumes counted from 1
PathPrefixOneBased(k) ==
    IF k = 0 THEN <<>> ELSE <<"v">> \o ToStr(k + 1) \o <<"/">>

\* prefix of volume vol_idx (0-based)
PathPrefix(k) == IF k = 0 THEN <<>> ELSE <<"v">> \o ToStr(k) \o <<"/">>

\* new_id = old_id if not id_prefix else id_prefix + old_id
NewId(id_prefix, old_id) ==
    IF id_prefix = <<>> THEN old_id ELSE id_prefix \o old_id

\* new_href = href if not prefix else prefix + href
NewHref(prefix, href) ==
    IF prefix = <<>> THEN href ELSE prefix \o href

\* a variant of WithoutNav: the token "nav" and every token after it go
RECURSIVE WithoutNavAndRest(_)
WithoutNavAndRest(props) ==
    IF props = <<>> THEN <<>>
    ELSE IF Head(props) = "nav" THEN <<>>
    ELSE <<Head(props)>> \o WithoutNavAndRest(Tail(props))

\* the tokens p of a properties value with p != "nav"
RECURSIVE WithoutNav(_)
WithoutNav(props) ==
    IF props = <<>> THEN <<>>
    ELSE (IF Head(props) = "nav" THEN <<>> ELSE <<Head(props)>>)
             \o WithoutNav(Tail(props))

\* the attributes of the copied item: id and href replaced, the nav token
\* removed when suppress_nav, the properties attribute dropped when no
\* token is left
CopiedAttrs(item, new_id, new_href, suppress_nav) ==
    LET props == IF suppress_nav /\ item.has_props
                 THEN WithoutNav(item.props) ELSE item.props
    IN  [id        |-> new_id,
         href      |-> new_href,
         has_props |-> IF suppress_nav /\ item.has_props
                       THEN props # <<>> ELSE item.has_props,
         props     |-> props]

\* a variant of Candidates: the spelling with %20 for the spaces is tried
\* before the percent-decoded one
CandidatesEncodedFirst(src_path) ==
    LET decoded == unquote(src_path)
        encoded_spaces == EncodeSpaces(src_path)
        c1 == <<src_path>>
        c2 == IF HasSpace(src_path) /\ encoded_spaces # src_path
              THEN c1 \o <<encoded_spaces>> ELSE c1
    IN  IF \A i \in 1..Len(c2) : c2[i] # decoded
        THEN c2 \o <<decoded>>
        ELSE c2

\* the candidate source paths, in the order they are tried
Candidates(src_path) ==
    LET decoded == unquote(src_path)
        c1 == <<src_path>>
        c2 == IF decoded = src_path THEN c1 ELSE c1 \o <<decoded>>
        encoded_spaces == EncodeSpaces(src_path)
    IN  IF HasSpace(src_path) /\ \A i \in 1..Len(c2) : c2[i] # encoded_spaces
        THEN c2 \o <<encoded_spaces>>
        ELSE c2

\* every name stored in a volume's archive
ArchiveNames(vol) ==
    vol.files
        \cup (IF vol.container = "missing" THEN {} ELSE {ContainerPath})
        \cup (IF vol.opf = "missing" THEN {} ELSE {vol.opf_path})

\* the first candidate in_zip.read finds, as <<cand>>; <<>> when every
\* candidate raises KeyError
RECURSIVE FirstPresent(_, _)
FirstPresent(vol, cands) ==
    IF cands = <<>> THEN <<>>
    ELSE IF Head(cands) \in ArchiveNames(vol) THEN <<Head(cands)>>
    ELSE FirstPresent(vol, Tail(cands))

\* a variant of HrefMapWith: only the verbatim and the decoded key
HrefMapNoEncoded(m, href, new_href) ==
    LET m1 == Put(m, href, new_href)
        decoded_href == unquote(href)
    IN  IF decoded_href # href THEN Put(m1, decoded_href, new_href) ELSE m1

\* href_map after one item: the href verbatim, percent-decoded and with
\* its spaces encoded
HrefMapWith(m, href, new_href) ==
    LET m1 == Put(m, href, new_href)
        decoded_href == unquote(href)
        m2 == IF decoded_href # href THEN Put(m1, decoded_href, new_href) ELSE m1
        encoded_spaces_href == EncodeSpaces(href)
    IN  IF HasSpace(href) /\ encoded_spaces_href # href
        THEN Put(m2, encoded_spaces_href, new_href)
        ELSE m2

(***************************************************************************)
(* The spine: _append_spine_entries.                                       *)
(***************************************************************************)
\* a variant of SpineEntries: the loop ends at the first itemref that is
\* left out
RECURSIVE SpineEntriesBreak(_, _)
SpineEntriesBreak(book_spine, idmap) ==
    IF book_spine = <<>> THEN <<>>
    ELSE LET old_idref == Head(book_spine)
             new_idref == Get(idmap, old_idref)
         IN  IF old_idref = <<>> \/ new_idref = <<>> THEN <<>>
             ELSE <<new_idref>> \o SpineEntriesBreak(Tail(book_spine), idmap)

\* the itemrefs a volume adds to the merged spine
RECURSIVE SpineEntries(_, _)
SpineEntries(book_spine, idmap) ==
    IF book_spine = <<>> THEN <<>>
    ELSE LET old_idref == Head(book_spine)
             new_idref == Get(idmap, old_idref)
             rest      == SpineEntries(Tail(book_spine), idmap)
         IN  IF old_idref = <<>> THEN rest
             ELSE IF new_idref = <<>> THEN rest
             ELSE <<new_idref>> \o rest

(***************************************************************************)
(* The volume's table of contents.  A list (<ol>) is a sequence of entries *)
(* [href, sub]: the link of an <li> ("" when it has none) and its nested   *)
(* list.  The volume's own <li> is [from, href, ol]: the source it was     *)
(* built from, its link (none: the title is a <span>) and its list.        *)
(***************************************************************************)
\* the first manifest item whose properties hold the token nav, as <<href>>
RECURSIVE FindNavHref(_)
FindNavHref(book_manifest) ==
    IF book_manifest = <<>> THEN <<>>
    ELSE LET item == Head(book_manifest)
         IN  IF \E i \in 1..Len(item.props) : item.props[i] = "nav"
             THEN <<item.href>>
             ELSE FindNavHref(Tail(book_manifest))

\* the first manifest item with the id the spine's toc attribute names
RECURSIVE FindById(_, _)
FindById(book_manifest, toc_id) ==
    IF book_manifest = <<>> THEN <<>>
    ELSE IF Head(book_manifest).id = toc_id THEN <<Head(book_manifest).href>>
    ELSE FindById(Tail(book_manifest), toc_id)

\* ncx_href_rel: looked for only when no navigation document was found
FindNcxHref(vol, nav) ==
    IF nav # <<>> THEN <<>>
    ELSE IF vol.toc = <<>> THEN <<>>
    ELSE FindById(vol.manifest, vol.toc)

\* the document stored at an archive path: <<doc>>, or <<>> when the path
\* is absent (KeyError) or its bytes are not XML (ParseError)
ReadXml(vol, path) ==
    IF path \notin ArchiveNames(vol) THEN <<>>
    ELSE IF path \notin DOMAIN vol.docs THEN <<>>
    ELSE <<vol.docs[path]>>

\* one <a href> of a navigation document rewritten through href_map
RewriteNavHref(href, nav_dir_rel, hmap) ==
    IF href = <<>> THEN href
    ELSE LET p == Partition(href, "#")
             path == p[1]
             full_rel == IF nav_dir_rel # <<>>
                         THEN PosixJoin(nav_dir_rel, path) ELSE path
             new_doc_href == Get(hmap, full_rel)
         IN  IF path = <<>> THEN href
             ELSE IF new_doc_href = <<>> THEN href
             ELSE new_doc_href \o (IF p[2] # <<>> THEN p[2] \o p[3] ELSE <<>>)

\* the deep copy of the navigation document's list, every link rewritten
RECURSIVE RewriteOl(_, _, _)
RewriteOl(ol, nav_dir_rel, hmap) ==
    [i \in 1..Len(ol) |->
        [href |-> RewriteNavHref(ol[i].href, nav_dir_rel, hmap),
         sub  |-> RewriteOl(ol[i].sub, nav_dir_rel, hmap)]]

\* _build_volume_nav_from_nav_xhtml: <<li_vol>>, or <<>> for None
VolumeNavFromNavXhtml(vol, base, nav_rel, hmap) ==
    LET got == ReadXml(vol, Under(base, nav_rel))
    IN  IF got = <<>> THEN <<>>
        ELSE IF got[1].nav # "ol" THEN <<>>
        ELSE <<[from |-> "nav", href |-> <<>>,
                ol   |-> RewriteOl(got[1].ol, DirOf(nav_rel), hmap)]>>

\* the href build_li gives a navPoint
NcxHref(src_attr, ncx_dir_rel, hmap) ==
    LET p == Partition(src_attr, "#")
        path == p[1]
        full_rel == IF ncx_dir_rel # <<>> /\ path # <<>>
                    THEN PosixJoin(ncx_dir_rel, path) ELSE path
        new_doc_href == Get(hmap, full_rel)
    IN  IF new_doc_href # <<>>
        THEN new_doc_href \o (IF p[2] # <<>> THEN p[2] \o p[3] ELSE <<>>)
        ELSE src_attr

\* build_li over the navPoints of one level
RECURSIVE BuildLis(_, _, _)
BuildLis(points, ncx_dir_rel, hmap) ==
    [i \in 1..Len(points) |->
        [href |-> NcxHref(points[i].href, ncx_dir_rel, hmap),
         sub  |-> BuildLis(points[i].sub, ncx_dir_rel, hmap)]]

\* _build_ol_from_ncx wrapped in the volume's <li>: <<li_vol>>, or <<>>
VolumeNavFromNcx(vol, base, ncx_rel, hmap) ==
    LET got == ReadXml(vol, Under(base, ncx_rel))
    IN  IF got = <<>> THEN <<>>
        ELSE IF ~got[1].navMap THEN <<>>
        ELSE <<[from |-> "ncx", href |-> <<>>,
                ol   |-> BuildLis(got[1].points, DirOf(ncx_rel), hmap)]>>

\* a variant of FallbackLis: the loop ends at the first itemref that
\* resolves to nothing
RECURSIVE FallbackLisBreak(_, _)
FallbackLisBreak(book_spine, id2href) ==
    IF book_spine = <<>> THEN <<>>
    ELSE LET old_idref == Head(book_spine)
             href      == Get(id2href, old_idref)
         IN  IF old_idref = <<>> \/ href = <<>> THEN <<>>
             ELSE <<[href |-> href, sub |-> <<>>]>>
                      \o FallbackLisBreak(Tail(book_spine), id2href)

\* the chapter entries _build_volume_nav_li_fallback makes from the spine
RECURSIVE FallbackLis(_, _)
FallbackLis(book_spine, id2href) ==
    IF book_spine = <<>> THEN <<>>
    ELSE LET old_idref == Head(book_spine)
             href      == Get(id2href, old_idref)
             rest      == FallbackLis(Tail(book_spine), id2href)
         IN  IF old_idref = <<>> THEN rest
             ELSE IF href = <<>> THEN rest
             ELSE <<[href |-> href, sub |-> <<>>]>> \o rest

\* _build_volume_nav_li_fallback
VolumeNavFallback(book_spine, id2href) ==
    [from |-> "spine", href |-> <<>>,
     ol |-> FallbackLis(book_spine, id2href)]

\* li_vol of one volume: navigation document, else legacy map, else spine
VolumeNav(vol, base, nav, ncx, hmap, id2href) ==
    LET a == IF nav # <<>> /\ nav[1] # <<>>
             THEN VolumeNavFromNavXhtml(vol, base, nav[1], hmap) ELSE <<>>
        b == IF a = <<>> /\ ncx # <<>> /\ ncx[1] # <<>>
             THEN VolumeNavFromNcx(vol, base, ncx[1], hmap) ELSE a
    IN  IF b = <<>> THEN VolumeNavFallback(vol.spine, id2href) ELSE b[1]

(***************************************************************************)
(* The input volumes.  A volume is what one input path holds:              *)
(*   name       the archive (its bytes are told apart by name and path)    *)
(*   is_file    whether the path is an existing regular file               *)
(*   container  META-INF/container.xml: "ok", "missing" or "norootfile"    *)
(*   opf_path   the full-path the rootfile names                           *)
(*   opf        the package document: "ok", "missing" or "nomanifest"      *)
(*   manifest   its <item>s [id, href, has_props, props], in order         *)
(*   spine      the idref of each <itemref>, "" when it has none           *)
(*   toc        the spine's toc attribute, "" when it has none             *)
(*   files      the archive paths of the stored resources                  *)
(*   docs       the stored paths that parse as XML, with what they hold:   *)
(*              nav "ol" (a <nav> with an <ol>, the list in ol), "nool"    *)
(*              (a <nav> without <ol>) or "none"; navMap and its points    *)
(* Ids and hrefs are unique inside a volume, as in a valid package.        *)
(***************************************************************************)
sX == <<"x">>
sY == <<"y">>
sZ == <<"z">>
sC1 == <<"c", "1">>
sC2 == <<"c", "2">>
sC3 == <<"c", "3">>
sNcx == <<"n", "c", "x">>
sV1X == <<"v", "1", "_", "x">>
sOrphan == <<"g", "o", "n", "e">>
hA == <<"t", "e", "x", "t", "/", "a", ".", "x", "h", "t", "m", "l">>
hV1A == <<"v", "1", "/">> \o hA
hB == <<"b">>
hSpace == <<"C", " ", "1">>
hPct == <<"C", "%", "2", "0", "1">>
hOther == <<"%", "4", "3", " ", "1">>
hOtherPct == <<"%", "4", "3", "%", "2", "0", "1">>
hDSpace == <<"D", " ", "1">>
hDPct == <<"D", "%", "2", "0", "1">>
hNav == <<"n", "a", "v", ".", "x", "h", "t", "m", "l">>
hNcx == <<"t", "o", "c", ".", "n", "c", "x">>
hGone == <<"g", "o", "n", "e", ".", "x", "h", "t", "m", "l">>
hOne == <<"1">>
hTwo == <<"2">>
hThree == <<"3">>
fragF == <<"#", "f">>
dirT == <<"t", "/">>
pRoot == <<"c", ".", "o", "p", "f">>
pSub == <<"O", "/", "c", ".", "o", "p", "f">>

Item(id, href) == [id |-> id, href |-> href, has_props |-> FALSE, props |-> <<>>]

ItemP(id, href, props) ==
    [id |-> id, href |-> href, has_props |-> TRUE, props |-> props]

Li(href) == [href |-> href, sub |-> <<>>]

LiSub(href, sub) == [href |-> href, sub |-> sub]

NavDoc(ol) == [nav |-> "ol", ol |-> ol, navMap |-> FALSE, points |-> <<>>]

NcxDoc(points) == [nav |-> "none", ol |-> <<>>, navMap |-> TRUE, points |-> points]

NoDocs == [k \in {} |-> NavDoc(<<>>)]

Volume(name, items, spine_refs, toc, files, docs) ==
    [name |-> name, is_file |-> TRUE, container |-> "ok", opf_path |-> pRoot,
     opf |-> "ok", manifest |-> items, spine |-> spine_refs, toc |-> toc,
     files |-> files, docs |-> docs]

\* one chapter, no table of contents
VolPlain == Volume("plain", <<Item(sX, hA)>>, <<sX>>, <<>>, {hA}, NoDocs)

\* a first volume whose own id and hrefs look like a later volume's
\* namespaced ones and like the synthesized navigation document's
VolLookalike ==
    Volume("lookalike", <<Item(sV1X, hV1A), Item(sZ, NavHref)>>, <<sV1X>>,
           <<>>, {hV1A, NavHref}, NoDocs)

\* the chapter the manifest declares is not in the archive
VolMissing == Volume("missing", <<Item(sX, hA)>>, <<sX>>, <<>>, {}, NoDocs)

\* an EPUB 3 volume: a navigation document with nested links, a fragment,
\* a percent-encoded link to a file stored with a space, and links that
\* name no manifest href
VolEpub3 ==
    Volume("epub3",
           <<ItemP(NavId, hNav, <<"nav">>), Item(sX, hA), Item(sY, hSpace)>>,
           <<sX, sY>>, <<>>, {hNav, hA, hSpace},
           hNav :> NavDoc(<<LiSub(hA, <<Li(hA \o fragF)>>), Li(hPct),
                            LiSub(<<>>, <<Li(hGone)>>), Li(hOther)>>))

\* the manifest percent-encodes, the archive and the links use a space;
\* the navigation document lies in a directory and links relative to it
VolEncoded ==
    Volume("encoded",
           <<ItemP(NavId, dirT \o hNav, <<"scripted", "nav">>),
             Item(sY, dirT \o hPct)>>,
           <<sY>>, <<>>, {dirT \o hNav, dirT \o hSpace},
           (dirT \o hNav) :> NavDoc(<<Li(hSpace), Li(hSpace \o fragF)>>))

\* an EPUB 2 volume: a legacy navigation map with nested points
VolEpub2 ==
    Volume("epub2", <<Item(sNcx, hNcx), Item(sX, hA)>>, <<sX>>, sNcx,
           {hNcx, hA},
           hNcx :> NcxDoc(<<LiSub(hA, <<Li(hA \o fragF)>>), Li(hGone)>>))

\* no table of contents; the spine has an itemref to no manifest item and
\* one without idref
VolOrphan ==
    Volume("orphan", <<Item(sX, hA), Item(sY, hB)>>,
           <<sY, sOrphan, <<>>, sX>>, <<>>, {hA, hB}, NoDocs)

\* three chapters and a navigation document with a link to each
VolThree ==
    Volume("three",
           <<ItemP(NavId, hNav, <<"nav">>), Item(sC1, hOne), Item(sC2, hTwo),
             Item(sC3, hThree)>>,
           <<sC1, sC2, sC3>>, <<>>, {hNav, hOne, hTwo, hThree},
           hNav :> NavDoc(<<Li(hOne), Li(hTwo), Li(hThree)>>))

\* the declared navigation document is not XML; the spine names a
\* readable legacy map
VolBadNav ==
    Volume("badnav",
           <<ItemP(NavId, hNav, <<"nav">>), Item(sNcx, hNcx), Item(sX, hA)>>,
           <<sX>>, sNcx, {hNav, hNcx, hA},
           hNcx :> NcxDoc(<<Li(hA)>>))

\* property tokens around the nav token, a properties value without it
\* and an empty one
VolProps ==
    Volume("props",
           <<ItemP(sZ, hNav, <<"scripted", "nav", "svg">>),
             ItemP(sX, hA, <<"svg">>), ItemP(sY, hB, <<>>)>>,
           <<sX, sY>>, <<>>, {hNav, hA, hB},
           hNav :> NavDoc(<<Li(hB)>>))

\* the declared navigation document has a <nav> without <ol>; the spine
\* names a readable legacy map
VolNoOl ==
    Volume("nool",
           <<ItemP(NavId, hNav, <<"nav">>), Item(sNcx, hNcx), Item(sX, hA)>>,
           <<sX>>, sNcx, {hNav, hNcx, hA},
           (hNav :> [NavDoc(<<>>) EXCEPT !.nav = "nool"])
               @@ (hNcx :> NcxDoc(<<Li(hA)>>)))

\* the declared navigation document is not in the archive; the spine
\* names a readable legacy map
VolNavAbsent ==
    Volume("navabsent",
           <<Item(sX, hA), Item(sNcx, hNcx), ItemP(NavId, hNav, <<"nav">>)>>,
           <<sX>>, sNcx, {hNcx, hA},
           hNcx :> NcxDoc(<<Li(hA)>>))

\* the archive stores a resource under several of the spellings that are
\* tried: the manifest's own and its decoded one; the decoded one and the
\* one with %20 for the spaces; only the one with %20 for the spaces
VolTwins ==
    Volume("twins",
           <<Item(sX, hPct), Item(sY, hOther), Item(sZ, hDSpace)>>,
           <<sX, sY, sZ>>, <<>>, {hPct, hSpace, hOtherPct, hDPct}, NoDocs)

\* the package document lies in a directory of the archive
VolSubdir ==
    [Volume("subdir", <<Item(sX, hA)>>, <<sX>>, <<>>,
            {<<"O", "/">> \o hA}, NoDocs)
        EXCEPT !.opf_path = pSub]

\* broken inputs
VolNotFile == [VolPlain EXCEPT !.name = "notfile", !.is_file = FALSE]

VolNoContainer == [VolPlain EXCEPT !.name = "nocontainer", !.container = "missing"]

VolNoRootfile == [VolPlain EXCEPT !.name = "norootfile", !.container = "norootfile"]

VolNoManifest == [VolPlain EXCEPT !.name = "nomanifest", !.opf = "nomanifest"]

Volumes ==
    {VolPlain, VolLookalike, VolMissing, VolEpub3, VolEncoded, VolEpub2,
     VolOrphan, VolThree, VolBadNav, VolProps, VolNoOl, VolNavAbsent,
     VolTwins, VolSubdir, VolNotFile, VolNoContainer, VolNoRootfile, VolNoManifest}

\* the input lists: every list of at most MaxVols volumes
InputLists == UNION {[1..n -> Volumes] : n \in 0..MaxVols}

(***************************************************************************)
(* The state of one call merge_epubs(output_path, input_paths).            *)
(***************************************************************************)
VARIABLES
    input_paths,      \* the volumes at the input paths, in input order
    out_dir,          \* whether the output's parent directory exists
    out_file,         \* the output path: "absent", "old" (a file that was
                      \* there before the call) or "archive" (opened "w")
    out_open,         \* whether out_zip is open
    out_zip,          \* the entries written to out_zip, [path, kind, src]
    io,               \* every file-system operation so far, [op, arg]
    pc,               \* where the call is
    err,              \* the exception that left the call, "" when none
    result,           \* the value returned, -1 before the return
    primary_opf_rel,
    opf_dir,
    manifest,         \* the <item>s of the merged package document
    spine,            \* the idrefs of its <itemref>s
    volume_nav_items, \* li_vol of every volume processed so far
    written_files,
    total_items,
    vol_idx,          \* 0-based, as in the code
    item_idx,         \* the next manifest item of the volume, from 1
    src_base_dir,
    nav_href_rel,     \* <<>> for None, else <<href>>
    ncx_href_rel,     \* <<>> for None, else <<href>>
    id_map,
    id_to_href,
    href_map,
    total             \* _copy_manifest_items' count for the volume

\* The state of the graphical caller (App and its Workers).
VARIABLES
    enabled,          \* whether the window is enabled (self.isEnabled())
    progress,         \* whether the progress bar is shown
    btn_run_text,     \* the label of btn_run: "start" or "merging"
    wk,               \* the Workers created so far, [data, state]; self.wk
                      \* is the last one
    fin_emitted,      \* every fin signal emitted so far, [wk, ok, msg, p]
    fin_queue,        \* the fin signals queued for the window's thread
    dialogs           \* the modal message boxes open, [kind, text]

outvars == <<out_dir, out_file, out_open, out_zip>>

opfvars == <<primary_opf_rel, opf_dir, manifest, spine, volume_nav_items>>

volvars ==
    <<src_base_dir, nav_href_rel, ncx_href_rel, id_map, id_to_href, href_map,
      total>>

guivars ==
    <<enabled, progress, btn_run_text, wk, fin_emitted, fin_queue, dialogs>>

vars ==
    <<input_paths, outvars, io, pc, err, result, opfvars, written_files,
      total_items, vol_idx, item_idx, volvars, guivars>>

Op(op, arg) == [op |-> op, arg |-> arg]

\* a variant of Entry: the payload is not kept
EntryWithoutPayload(path, kind, src) ==
    [path |-> path, kind |-> kind, src |-> <<>>, compress_type |-> "ZIP_STORED"]

\* an entry of the output archive: its path, what it is, its payload
\* (for a copied resource the archive and member the bytes were read
\* from) and its compression, ZIP_STORED being the default of an archive
\* opened without a compression argument
Entry(path, kind, src) ==
    [path |-> path, kind |-> kind, src |-> src, compress_type |-> "ZIP_STORED"]

\* a variant of BootstrapEntries: the container pointer written first
BootstrapEntriesSwapped(primary) ==
    <<Entry(ContainerPath, "container", primary),
      Entry(MimetypePath, "mimetype", <<>>)>>

\* the two entries written as soon as the output is open: mimetype, then
\* container.xml naming primary_opf_rel
BootstrapEntries(primary) ==
    <<Entry(MimetypePath, "mimetype", <<>>),
      Entry(ContainerPath, "container", primary)>>

\* _build_merged_nav_html: <nav> holds a heading without link and one
\* root list with the volumes' <li> appended as they are
BuildMergedNavHtml(volume_lis) ==
    [h1_href |-> <<>>, ol_root |-> volume_lis]

\* the volume being processed
CurVol == input_paths[vol_idx + 1]

\* the output path before the call: nothing there, not even the
\* directory; the directory alone; or a file from an earlier run
OutputsBefore == {<<FALSE, "absent">>, <<TRUE, "absent">>, <<TRUE, "old">>}

\* the window after App.__init__: enabled, the progress bar hidden, no
\* Worker yet
WindowInit ==
    /\ enabled = TRUE
    /\ progress = FALSE
    /\ btn_run_text = "start"
    /\ wk = <<>>
    /\ fin_emitted = <<>>
    /\ fin_queue = <<>>
    /\ dialogs = <<>>

Init ==
    /\ WindowInit
    /\ input_paths \in InputLists
    /\ \E before \in OutputsBefore :
           out_dir = before[1] /\ out_file = before[2]
    /\ out_open = FALSE
    /\ out_zip = <<>>
    /\ io = <<>>
    /\ pc = "start"
    /\ err = ""
    /\ result = -1
    /\ primary_opf_rel = <<>>
    /\ opf_dir = <<>>
    /\ manifest = <<>>
    /\ spine = <<>>
    /\ volume_nav_items = <<>>
    /\ written_files = {}
    /\ total_items = 0
    /\ vol_idx = 0
    /\ item_idx = 1
    /\ src_base_dir = <<>>
    /\ nav_href_rel = <<>>
    /\ ncx_href_rel = <<>>
    /\ id_map = EmptyMap
    /\ id_to_href = EmptyMap
    /\ href_map = EmptyMap
    /\ total = 0

\* the exception get_opf_path raises on a volume, "" when it returns
OpfPathError(vol) ==
    IF vol.container = "missing" THEN "KeyError"
    ELSE IF vol.container = "norootfile" THEN "RuntimeError"
    ELSE ""

\* the is_file() calls of _ensure_input_paths: it stops at the first
\* path that is no file
RECURSIVE IsFileCalls(_, _)
IsFileCalls(paths, k) ==
    IF k > Len(paths) THEN <<>>
    ELSE <<Op("is_file", ToStr(k - 1))>>
             \o (IF paths[k].is_file THEN IsFileCalls(paths, k + 1) ELSE <<>>)

\* a variant of SomeInputMissing: only the first path is looked at
FirstInputMissing(paths) == ~paths[1].is_file

\* whether _ensure_input_paths raises FileNotFoundError
SomeInputMissing(paths) == \E k \in 1..Len(paths) : ~paths[k].is_file

\* lines 432-436: the empty list is refused, then every path is checked
Start ==
    /\ pc = "start"
    /\ IF input_paths = <<>>
       THEN /\ err' = "SystemExit"
            /\ pc' = "failed"
            /\ io' = io
       ELSE /\ io' = io \o IsFileCalls(input_paths, 1)
            /\ IF SomeInputMissing(input_paths)
               THEN err' = "FileNotFoundError" /\ pc' = "failed"
               ELSE err' = err /\ pc' = "mkdir"
    /\ UNCHANGED <<input_paths, outvars, result, opfvars, written_files,
                   total_items, vol_idx, item_idx, volvars>>
    /\ UNCHANGED guivars

\* lines 437-438: the output's parent directory is made
MakeParent ==
    /\ pc = "mkdir"
    /\ out_dir' = TRUE
    /\ io' = Append(io, Op("mkdir", <<>>))
    /\ pc' = "primary"
    /\ UNCHANGED <<input_paths, out_file, out_open, out_zip, err, result,
                   opfvars, written_files, total_items, vol_idx, item_idx,
                   volvars>>
    /\ UNCHANGED guivars

\* lines 441-462: the first volume names the package document's path
ReadPrimary ==
    /\ pc = "primary"
    /\ io' = io \o <<Op("open_in", ToStr(0)), Op("close_in", ToStr(0))>>
    /\ LET e == OpfPathError(input_paths[1])
       IN  IF e # ""
           THEN /\ err' = e
                /\ pc' = "failed"
                /\ UNCHANGED <<primary_opf_rel, opf_dir>>
           ELSE /\ primary_opf_rel' = PosixStr(input_paths[1].opf_path)
                /\ opf_dir' = DirOf(input_paths[1].opf_path)
                /\ err' = err
                /\ pc' = "open_out"
    /\ UNCHANGED <<input_paths, outvars, result, manifest, spine,
                   volume_nav_items, written_files, total_items, vol_idx,
                   item_idx, volvars>>
    /\ UNCHANGED guivars

\* lines 464-480: the output archive is opened, mimetype and container.xml
\* are written
OpenOutput ==
    /\ pc = "open_out"
    /\ out_file' = "archive"
    /\ out_open' = TRUE
    /\ out_zip' = BootstrapEntries(primary_opf_rel)
    /\ io' = io \o <<Op("open_out", <<>>)>>
                 \o [n \in 1..2 |->
                        Op("write", BootstrapEntries(primary_opf_rel)[n].path)]
    /\ written_files' = {}
    /\ total_items' = 0
    /\ vol_idx' = 0
    /\ pc' = "volume"
    /\ UNCHANGED <<input_paths, out_dir, err, result, opfvars, item_idx,
                   volvars>>
    /\ UNCHANGED guivars

\* an exception inside the with blocks: both archives are closed on the
\* way out and the output file stays
Raise(e, ops) ==
    /\ err' = e
    /\ pc' = "failed"
    /\ out_open' = FALSE
    /\ io' = io \o ops
              \o <<Op("close_in", ToStr(vol_idx)), Op("close_out", <<>>)>>
    /\ UNCHANGED <<out_dir, out_file>>

\* the exception lines 489-496 raise on a volume, "" when they pass
OpenError(vol) ==
    IF OpfPathError(vol) # "" THEN OpfPathError(vol)
    ELSE IF vol.opf = "missing" THEN "KeyError"
    ELSE IF vol.opf = "nomanifest" THEN "RuntimeError"
    ELSE ""

\* lines 482-518: the next volume is opened, its package document read,
\* its navigation document or legacy map looked up
OpenVolume ==
    /\ pc = "volume"
    /\ vol_idx < Len(input_paths)
    /\ IF OpenError(CurVol) # ""
       THEN /\ Raise(OpenError(CurVol), <<Op("open_in", ToStr(vol_idx))>>)
            /\ UNCHANGED <<volvars, item_idx>>
       ELSE /\ io' = Append(io, Op("open_in", ToStr(vol_idx)))
            /\ src_base_dir' = DirOf(CurVol.opf_path)
            /\ nav_href_rel' = FindNavHref(CurVol.manifest)
            /\ ncx_href_rel' = FindNcxHref(CurVol, FindNavHref(CurVol.manifest))
            /\ id_map' = EmptyMap
            /\ id_to_href' = EmptyMap
            /\ href_map' = EmptyMap
            /\ total' = 0
            /\ item_idx' = 1
            /\ pc' = "item"
            /\ UNCHANGED <<outvars, err>>
    /\ UNCHANGED <<input_paths, out_zip, result, opfvars, written_files,
                   total_items, vol_idx>>
    /\ UNCHANGED guivars

\* lines 94-178: one round of _copy_manifest_items' loop
CopyItem ==
    /\ pc = "item"
    /\ item_idx <= Len(CurVol.manifest)
    /\ LET item     == CurVol.manifest[item_idx]
           new_id   == NewId(IdPrefix(vol_idx), item.id)
           new_href == NewHref(PathPrefix(vol_idx), item.href)
           src_path == Under(src_base_dir, item.href)
           dst_path == Under(opf_dir, new_href)
           found    == FirstPresent(CurVol, Candidates(src_path))
       IN  IF dst_path \notin written_files /\ found = <<>>
           THEN /\ Raise("RuntimeError", <<>>)
                /\ UNCHANGED <<out_zip, manifest, written_files, item_idx,
                               id_map, id_to_href, href_map, total>>
           ELSE /\ IF dst_path \notin written_files
                   THEN /\ out_zip' = Append(out_zip,
                               Entry(dst_path, "resource",
                                     <<CurVol.name>> \o found[1]))
                        /\ io' = Append(io, Op("write", dst_path))
                        /\ written_files' = written_files \cup {dst_path}
                   ELSE UNCHANGED <<out_zip, io, written_files>>
                /\ manifest' = Append(manifest,
                       CopiedAttrs(item, new_id, new_href, TRUE))
                /\ id_map' = Put(id_map, item.id, new_id)
                /\ id_to_href' = Put(id_to_href, item.id, new_href)
                /\ href_map' = HrefMapWith(href_map, item.href, new_href)
                /\ total' = total + 1
                /\ item_idx' = item_idx + 1
                /\ UNCHANGED <<out_dir, out_file, out_open, err, pc>>
    /\ UNCHANGED <<input_paths, result, primary_opf_rel, opf_dir, spine,
                   volume_nav_items, total_items, vol_idx, src_base_dir,
                   nav_href_rel, ncx_href_rel>>
    /\ UNCHANGED guivars

\* a variant of FinishVolume: the volume's archive is left open
FinishVolumeLeavesOpen ==
    /\ pc = "item"
    /\ item_idx > Len(CurVol.manifest)
    /\ total_items' = total_items + total
    /\ spine' = spine \o SpineEntries(CurVol.spine, id_map)
    /\ volume_nav_items' = Append(volume_nav_items,
           VolumeNav(CurVol, src_base_dir, nav_href_rel, ncx_href_rel,
                     href_map, id_to_href))
    /\ vol_idx' = vol_idx + 1
    /\ pc' = "volume"
    /\ UNCHANGED <<input_paths, outvars, io, err, result, primary_opf_rel,
                   opf_dir, manifest, written_files, item_idx, volvars>>
    /\ UNCHANGED guivars

\* lines 532-570: the volume's count, spine and li_vol are added and the
\* volume is closed
FinishVolume ==
    /\ pc = "item"
    /\ item_idx > Len(CurVol.manifest)
    /\ total_items' = total_items + total
    /\ spine' = spine \o SpineEntries(CurVol.spine, id_map)
    /\ volume_nav_items' = Append(volume_nav_items,
           VolumeNav(CurVol, src_base_dir, nav_href_rel, ncx_href_rel,
                     href_map, id_to_href))
    /\ io' = Append(io, Op("close_in", ToStr(vol_idx)))
    /\ vol_idx' = vol_idx + 1
    /\ pc' = "volume"
    /\ UNCHANGED <<input_paths, outvars, err, result, primary_opf_rel,
                   opf_dir, manifest, written_files, item_idx, volvars>>
    /\ UNCHANGED guivars

\* lines 572-584: the navigation document is registered and written
WriteNav ==
    /\ pc = "volume"
    /\ vol_idx = Len(input_paths)
    /\ manifest' = Append(manifest, ItemP(NavId, NavHref, <<"nav">>))
    /\ out_zip' = Append(out_zip,
           Entry(Under(opf_dir, NavHref), "nav",
                 BuildMergedNavHtml(volume_nav_items)))
    /\ io' = Append(io, Op("write", Under(opf_dir, NavHref)))
    /\ pc' = "opf"
    /\ UNCHANGED <<input_paths, out_dir, out_file, out_open, err, result,
                   primary_opf_rel, opf_dir, spine, volume_nav_items,
                   written_files, total_items, vol_idx, item_idx, volvars>>
    /\ UNCHANGED guivars

\* a variant of WriteOpf: the number of resources written is returned
WriteOpfReturnsWritten ==
    /\ pc = "opf"
    /\ out_zip' = Append(out_zip, Entry(primary_opf_rel, "opf", <<>>))
    /\ io' = io \o <<Op("write", primary_opf_rel), Op("close_out", <<>>)>>
    /\ out_open' = FALSE
    /\ result' = Cardinality(written_files)
    /\ pc' = "done"
    /\ UNCHANGED <<input_paths, out_dir, out_file, err, opfvars,
                   written_files, total_items, vol_idx, item_idx, volvars>>
    /\ UNCHANGED guivars

\* lines 586-590: the package document is written, the archive closed and
\* the count returned
WriteOpf ==
    /\ pc = "opf"
    /\ out_zip' = Append(out_zip, Entry(primary_opf_rel, "opf", <<>>))
    /\ io' = io \o <<Op("write", primary_opf_rel), Op("close_out", <<>>)>>
    /\ out_open' = FALSE
    /\ result' = total_items
    /\ pc' = "done"
    /\ UNCHANGED <<input_paths, out_dir, out_file, err, opfvars,
                   written_files, total_items, vol_idx, item_idx, volvars>>
    /\ UNCHANGED guivars

Next ==
    \/ Start
    \/ MakeParent
    \/ ReadPrimary
    \/ OpenOutput
    \/ OpenVolume
    \/ CopyItem
    \/ FinishVolume
    \/ WriteNav
    \/ WriteOpf

Spec == Init /\ [][Next]_vars

(***************************************************************************)
(* What a completed merge is compared with.                                *)
(***************************************************************************)
Done == pc = "done"

NVols == Len(input_paths)

\* volume k (0-based) of the input list
Vol(k) == input_paths[k + 1]

\* the number of merged manifest entries copied from the volumes before k
RECURSIVE Offset(_)
Offset(k) == IF k = 0 THEN 0 ELSE Offset(k - 1) + Len(Vol(k - 1).manifest)

\* the merged manifest entry copied from item i of volume k
Copied(k, i) == manifest[Offset(k) + i]

\* a volume's ids and hrefs are unique inside the volume
UniqueWithin(vol) ==
    \A i, j \in 1..Len(vol.manifest) :
        i # j => /\ vol.manifest[i].id # vol.manifest[j].id
                 /\ vol.manifest[i].href # vol.manifest[j].href

\* the positions of the item with id "x" and href "text/a.xhtml"
XAt(vol) ==
    {i \in 1..Len(vol.manifest) :
        vol.manifest[i].id = sX /\ vol.manifest[i].href = hA}

EveryVolumeHasX == \A k \in 0..(NVols - 1) : XAt(Vol(k)) # {}

\* "v{k}_x" and "v{k}/text/a.xhtml", unprefixed for volume 0
ExpectedXId(k) ==
    IF k = 0 THEN <<"x">> ELSE <<"v">> \o ToStr(k) \o <<"_", "x">>

ExpectedXHref(k) == IF k = 0 THEN hA ELSE <<"v">> \o ToStr(k) \o <<"/">> \o hA

\* C1: when each of N >= 2 volumes has an item with id "x" and href
\* "text/a.xhtml", the merged manifest holds for volume 0 the entry "x",
\* "text/a.xhtml" and for volume k > 0 the entry "v{k}_x",
\* "v{k}/text/a.xhtml": N distinct ids and N distinct hrefs.
C1_NamespacedEntries ==
    (Done /\ NVols >= 2 /\ EveryVolumeHasX) =>
        /\ \A k \in 0..(NVols - 1) : \A i \in XAt(Vol(k)) :
               /\ Copied(k, i).id = ExpectedXId(k)
               /\ Copied(k, i).href = ExpectedXHref(k)
        /\ Cardinality({Copied(k, CHOOSE i \in XAt(Vol(k)) : TRUE).id :
                           k \in 0..(NVols - 1)}) = NVols
        /\ Cardinality({Copied(k, CHOOSE i \in XAt(Vol(k)) : TRUE).href :
                           k \in 0..(NVols - 1)}) = NVols

\* C1 witness: a merge of at least two volumes that all hold the item has
\* completed
C1_Witness ==
    /\ Done
    /\ NVols >= 2
    /\ EveryVolumeHasX
    /\ \E j \in 1..Len(manifest) : manifest[j].id = ExpectedXId(1)

\* C2: after a completed merge of volumes whose own ids and hrefs are
\* unique, no two entries of the merged manifest (the synthesized
\* navigation entry included) share an id, and no two share an href.
C2_ManifestUnique ==
    (Done /\ \A k \in 0..(NVols - 1) : UniqueWithin(Vol(k))) =>
        \A i, j \in 1..Len(manifest) :
            i # j => /\ manifest[i].id # manifest[j].id
                     /\ manifest[i].href # manifest[j].href

\* C3: after a completed merge, every idref of the merged spine is the id
\* of exactly one entry of the merged manifest.
C3_SpineResolvesOnce ==
    Done =>
        \A s \in 1..Len(spine) :
            Cardinality({j \in 1..Len(manifest) : manifest[j].id = spine[s]}) = 1

\* every link of a list, nested lists included, in document order
RECURSIVE Links(_)
Links(ol) ==
    IF ol = <<>> THEN <<>>
    ELSE (IF Head(ol).href # <<>> THEN <<Head(ol).href>> ELSE <<>>)
             \o Links(Head(ol).sub) \o Links(Tail(ol))

\* the part of a link before '#', and the rest
PathOf(href) == Partition(href, "#")[1]

FragmentOf(href) == Partition(href, "#")[2] \o Partition(href, "#")[3]

\* C4: after a completed merge, every link of the synthesized navigation
\* document with a non-empty path has the href of a merged manifest entry
\* as its path; a link of a navigation document or legacy map that cannot
\* be mapped is left out of the volume's subtree, so every link of such a
\* subtree leads to an entry copied from that volume.
C4_LinksResolve ==
    Done =>
        \A v \in 1..Len(volume_nav_items) :
            LET links == Links(volume_nav_items[v].ol)
            IN  \A n \in 1..Len(links) :
                    PathOf(links[n]) # <<>> =>
                        /\ \E j \in 1..Len(manifest) :
                               manifest[j].href = PathOf(links[n])
                        /\ volume_nav_items[v].from \in {"nav", "ncx"} =>
                               \E i \in 1..Len(Vol(v - 1).manifest) :
                                   Copied(v - 1, i).href = PathOf(links[n])

\* the navigation document a volume declares: <<doc>>, <<>> when it has
\* none that can be read
SourceNav(vol) ==
    IF FindNavHref(vol.manifest) = <<>> THEN <<>>
    ELSE ReadXml(vol, Under(DirOf(vol.opf_path), FindNavHref(vol.manifest)[1]))

\* the path a link of the volume's navigation document names, from the
\* package document's directory
LinkTarget(vol, href) ==
    Under(DirOf(FindNavHref(vol.manifest)[1]), PathOf(href))

\* how a link target and the href of manifest item i spell one resource:
\* "link_encoded" (a space in the manifest, %20 in the link),
\* "manifest_encoded" (%20 in the manifest, a space in the link), or "no"
SpaceTwin(vol, i, target) ==
    LET h == vol.manifest[i].href
    IN  IF \E j \in 1..Len(vol.manifest) :
               j # i /\ vol.manifest[j].href \in {h, target}
        THEN "no"
        ELSE IF HasSpace(h) /\ unquote(h) = h /\ target = EncodeSpaces(h)
        THEN "link_encoded"
        ELSE IF HasSpace(target) /\ unquote(target) = target
                    /\ h = EncodeSpaces(target)
        THEN "manifest_encoded"
        ELSE "no"

\* link n of volume k's navigation document and manifest item i spell one
\* resource in the given way
TwinCase(k, n, i, kind) ==
    /\ k < NVols
    /\ SourceNav(Vol(k)) # <<>>
    /\ SourceNav(Vol(k))[1].nav = "ol"
    /\ n \in 1..Len(Links(SourceNav(Vol(k))[1].ol))
    /\ i \in 1..Len(Vol(k).manifest)
    /\ SpaceTwin(Vol(k), i,
                 LinkTarget(Vol(k), Links(SourceNav(Vol(k))[1].ol)[n])) = kind

\* the number of links of volume k's navigation document
LinkCount(k) ==
    IF SourceNav(Vol(k)) = <<>> THEN 0
    ELSE Len(Links(SourceNav(Vol(k))[1].ol))

\* C5: when the manifest declares "Chapter 1.html" and the navigation
\* document links to "Chapter%201.html", or the other way round, the
\* rewritten link is the destination href the merged manifest records for
\* that resource (with the link's fragment).
C5_SpaceEncodingTolerated ==
    Done =>
        \A k \in 0..(NVols - 1) : \A n \in 1..LinkCount(k) :
            \A i \in 1..Len(Vol(k).manifest) :
                \A kind \in {"link_encoded", "manifest_encoded"} :
                    TwinCase(k, n, i, kind) =>
                        Links(volume_nav_items[k + 1].ol)[n] =
                            Copied(k, i).href
                                \o FragmentOf(Links(SourceNav(Vol(k))[1].ol)[n])

\* C5 witness: a completed merge met both spellings
C5_Witness ==
    /\ Done
    /\ \E k \in 0..(NVols - 1) : \E n \in 1..LinkCount(k) :
           \E i \in 1..Len(Vol(k).manifest) : TwinCase(k, n, i, "link_encoded")
    /\ \E k \in 0..(NVols - 1) : \E n \in 1..LinkCount(k) :
           \E i \in 1..Len(Vol(k).manifest) :
               TwinCase(k, n, i, "manifest_encoded")

\* the volume declares neither a navigation document nor a legacy map
NoTocDeclared(vol) ==
    /\ \A i \in 1..Len(vol.manifest) :
           \A t \in 1..Len(vol.manifest[i].props) :
               vol.manifest[i].props[t] # "nav"
    /\ \/ vol.toc = <<>>
       \/ \A i \in 1..Len(vol.manifest) : vol.manifest[i].id # vol.toc

\* the itemrefs of a volume's spine whose idref names a manifest item of
\* the volume, in spine order
Resolvable(vol) ==
    SelectSeq(vol.spine,
              LAMBDA r : \E i \in 1..Len(vol.manifest) : vol.manifest[i].id = r)

\* the entries of list ol link, one by one, to the resources refs names
ChaptersOf(k, ol, refs) ==
    /\ Len(ol) = Len(refs)
    /\ \A n \in 1..Len(ol) :
           /\ ol[n].sub = <<>>
           /\ \E i \in 1..Len(Vol(k).manifest) :
                  /\ Vol(k).manifest[i].id = refs[n]
                  /\ ol[n].href = Copied(k, i).href

\* C6 as stated: a volume without navigation document and legacy map
\* gets one chapter entry per itemref of its spine, in spine order.
C6_OnePerItemref ==
    Done =>
        \A k \in 0..(NVols - 1) :
            NoTocDeclared(Vol(k)) =>
                ChaptersOf(k, volume_nav_items[k + 1].ol, Vol(k).spine)

\* C6 amended: a volume without navigation document and legacy map gets
\* one chapter entry per itemref of its spine whose idref names a manifest
\* item of the volume, in spine order; the other itemrefs get none.
C6_OnePerResolvableItemref ==
    Done =>
        \A k \in 0..(NVols - 1) :
            NoTocDeclared(Vol(k)) =>
                /\ volume_nav_items[k + 1].from = "spine"
                /\ ChaptersOf(k, volume_nav_items[k + 1].ol, Resolvable(Vol(k)))

\* C6 witness: a completed merge held a volume without table of contents
\* whose spine has itemrefs that resolve and itemrefs that do not
C6_Witness ==
    /\ Done
    /\ \E k \in 0..(NVols - 1) :
           /\ NoTocDeclared(Vol(k))
           /\ Len(Resolvable(Vol(k))) >= 2
           /\ Len(Resolvable(Vol(k))) < Len(Vol(k).spine)
           /\ Len(volume_nav_items[k + 1].ol) = Len(Resolvable(Vol(k)))

\* the entries of a manifest that carry the nav property
NavFlagged(m) ==
    {j \in 1..Len(m) : \E t \in 1..Len(m[j].props) : m[j].props[t] = "nav"}

\* a volume of three chapters with a navigation document of three links,
\* one to each chapter
ThreeChapters(vol) ==
    /\ Len(vol.spine) = 3
    /\ Len(Resolvable(vol)) = 3
    /\ Cardinality({vol.spine[n] : n \in 1..3}) = 3
    /\ Len(vol.manifest) = 4
    /\ Cardinality(NavFlagged(vol.manifest)) = 1
    /\ \A n \in 1..3 : vol.spine[n] # vol.manifest[CHOOSE j \in NavFlagged(vol.manifest) : TRUE].id
    /\ SourceNav(vol) # <<>>
    /\ SourceNav(vol)[1].nav = "ol"
    /\ Len(SourceNav(vol)[1].ol) = 3
    /\ \A n \in 1..3 :
           /\ SourceNav(vol)[1].ol[n].sub = <<>>
           /\ \E i \in 1..4 :
                  /\ vol.manifest[i].id = vol.spine[n]
                  /\ LinkTarget(vol, SourceNav(vol)[1].ol[n].href)
                         = vol.manifest[i].href

TwoThreeChapterVolumes ==
    /\ NVols = 2
    /\ ThreeChapters(Vol(0))
    /\ ThreeChapters(Vol(1))

\* s.startswith(p)
StartsWith(s, p) ==
    /\ Len(p) <= Len(s)
    /\ SubSeq(s, 1, Len(p)) = p

\* what the scenario says of the spine and the navigation document
ScenarioSpineAndNav ==
    /\ Len(spine) = 6
    /\ Cardinality(NavFlagged(manifest)) = 1
    /\ Len(volume_nav_items) = 2
    /\ \A v \in 1..2 :
           /\ Len(volume_nav_items[v].ol) = 3
           /\ \A n \in 1..3 :
                  /\ volume_nav_items[v].ol[n].sub = <<>>
                  /\ volume_nav_items[v].ol[n].href # <<>>
                  /\ StartsWith(volume_nav_items[v].ol[n].href, <<"v", "1", "/">>)
                         <=> v = 2

\* C7 as stated: two such volumes give a spine of 6 entries, a manifest of
\* 6 content entries and 1 navigation entry, and a navigation document of
\* 2 volume nodes with 3 links each, the second volume's under "v1/".
C7_SixPlusOne ==
    (Done /\ TwoThreeChapterVolumes) =>
        /\ ScenarioSpineAndNav
        /\ Len(manifest) = 6 + 1

\* C7 amended: the manifest has 9 entries: the 6 chapters, the 2 volumes'
\* own navigation documents copied without the nav property, and the
\* synthesized navigation entry, the only one with the nav property.
C7_SixPlusTwoPlusOne ==
    (Done /\ TwoThreeChapterVolumes) =>
        /\ ScenarioSpineAndNav
        /\ Len(manifest) = 6 + 2 + 1
        /\ NavFlagged(manifest) = {Len(manifest)}
        /\ manifest[Len(manifest)].href = NavHref
        /\ Cardinality({j \in 1..Len(manifest) :
               \E s \in 1..Len(spine) : spine[s] = manifest[j].id}) = 6

\* C7 witness: the merge of two three-chapter volumes has completed
C7_Witness ==
    /\ Done
    /\ TwoThreeChapterVolumes
    /\ Len(spine) = 6

\* the volume's package can be opened and every resource it declares is
\* in its archive
Sound(vol) ==
    /\ vol.is_file
    /\ OpenError(vol) = ""
    /\ \A i \in 1..Len(vol.manifest) :
           FirstPresent(vol, Candidates(Under(DirOf(vol.opf_path),
                                              vol.manifest[i].href))) # <<>>

Ended == pc \in {"done", "failed"}

\* C8: when a volume at any position lacks its bootstrap pointer, the
\* merge fails and the output file is never created or opened for writing
\* (here the volumes before it are sound and every path is a file, so the
\* missing pointer is the first fault met).
C8_NoOutputWithoutBootstrap ==
    (/\ Ended
     /\ \A k \in 0..(NVols - 1) : Vol(k).is_file
     /\ \E k \in 0..(NVols - 1) :
            /\ Vol(k).container # "ok"
            /\ \A j \in 0..(k - 1) : Sound(Vol(j)))
    => /\ pc = "failed"
       /\ err \in {"KeyError", "RuntimeError"}
       /\ out_file # "archive"
       /\ \A n \in 1..Len(io) : io[n].op \notin {"open_out", "write"}

BadInputs == input_paths = <<>> \/ \E k \in 0..(NVols - 1) : ~Vol(k).is_file

\* C9: with an empty input list, or an input path at any position that is
\* no regular file, the call fails in its first step, no step creates the
\* output's directory or file or writes an entry, the only file-system
\* operations are the is_file tests, and with the empty list there are
\* none.
C9_FailsBeforeOutput ==
    [][BadInputs =>
          /\ pc' = "failed"
          /\ err' = (IF input_paths = <<>> THEN "SystemExit"
                     ELSE "FileNotFoundError")
          /\ out_dir' = out_dir
          /\ out_file' = out_file
          /\ ~out_open'
          /\ out_zip' = <<>>
          /\ \A n \in 1..Len(io') : io'[n].op = "is_file"
          /\ input_paths = <<>> => io' = <<>>]_vars

\* C9 witness: a call failed on a path that is not the first of the list,
\* the output directory still absent
C9_Witness ==
    /\ pc = "failed"
    /\ err = "FileNotFoundError"
    /\ NVols >= 2
    /\ Vol(0).is_file
    /\ ~Vol(NVols - 1).is_file
    /\ ~out_dir

\* item i of volume k cannot be read under any candidate path
Unfindable(k, i) ==
    FirstPresent(Vol(k), Candidates(Under(DirOf(Vol(k).opf_path),
                                          Vol(k).manifest[i].href))) = <<>>

\* item i of volume k is the first fault the merge can meet
FirstFaultIs(k, i) ==
    /\ \A j \in 0..(NVols - 1) : Vol(j).is_file
    /\ \A j \in 0..k : OpenError(Vol(j)) = ""
    /\ Unfindable(k, i)
    /\ \A j \in 0..k : \A h \in 1..Len(Vol(j).manifest) :
           (j < k \/ h < i) => ~Unfindable(j, h)

\* C10: when a declared resource of volume k cannot be found under any
\* candidate path, the merge aborts at that item: nothing after it is
\* added to the manifest, no later volume is processed, the navigation
\* document and the package document are never written, the error reaches
\* the caller and the partly written archive stays.
C10_AbortsAtMissingResource ==
    Ended =>
        \A k \in 0..(NVols - 1) : \A i \in 1..Len(Vol(k).manifest) :
            FirstFaultIs(k, i) =>
                /\ pc = "failed"
                /\ err = "RuntimeError"
                /\ vol_idx = k
                /\ Len(manifest) = Offset(k) + i - 1
                /\ Len(volume_nav_items) = k
                /\ \A n \in 1..Len(out_zip) : out_zip[n].kind \notin {"nav", "opf"}
                /\ out_file = "archive"

\* C11: during one merge no archive path is written twice: the paths of
\* the entries written so far (copied resources, mimetype, container.xml,
\* the synthesized navigation document, the package document) are pairwise
\* different, whatever hrefs the manifests declare.
C11_PathsWrittenOnce ==
    \A i, j \in 1..Len(out_zip) :
        i # j => out_zip[i].path # out_zip[j].path

\* the tokens of a properties value other than "nav", in their order
OtherTokens(props) == SelectSeq(props, LAMBDA t : t # "nav")

\* C12: after a completed merge the synthesized navigation entry, the last
\* of the manifest, is the only entry with the nav property; every copied
\* entry keeps the tokens of its source item other than "nav", in order,
\* and has a properties attribute exactly when its source has one and a
\* token remains.
C12_OnlySynthesizedNavFlag ==
    Done =>
        /\ NavFlagged(manifest) = {Len(manifest)}
        /\ manifest[Len(manifest)].id = NavId
        /\ manifest[Len(manifest)].href = NavHref
        /\ Len(manifest) = Offset(NVols) + 1
        /\ \A k \in 0..(NVols - 1) : \A i \in 1..Len(Vol(k).manifest) :
               /\ Copied(k, i).props = OtherTokens(Vol(k).manifest[i].props)
               /\ Copied(k, i).has_props
                      <=> (Vol(k).manifest[i].has_props
                               /\ OtherTokens(Vol(k).manifest[i].props) # <<>>)

\* C12 witness: a completed merge copied, in a volume after the first, an
\* item with tokens on both sides of "nav", an item whose properties have
\* no "nav", and an item left without properties attribute
C12_Witness ==
    /\ Done
    /\ \E k \in 1..(NVols - 1) :
           /\ \E i \in 1..Len(Vol(k).manifest) :
                  /\ Len(Vol(k).manifest[i].props) = 3
                  /\ Vol(k).manifest[i].props[2] = "nav"
                  /\ Len(Copied(k, i).props) = 2
           /\ \E i \in 1..Len(Vol(k).manifest) :
                  /\ Vol(k).manifest[i].props # <<>>
                  /\ Copied(k, i).props = Vol(k).manifest[i].props
           /\ \E i \in 1..Len(Vol(k).manifest) :
                  /\ Vol(k).manifest[i].has_props
                  /\ ~Copied(k, i).has_props

\* the id the merge gives to id r of volume k: "v{k}_" before it, nothing
\* for volume 0
Namespaced(k, r) == IF k = 0 THEN r ELSE <<"v">> \o ToStr(k) \o <<"_">> \o r

\* the spines of the volumes 0..n-1 one after the other, every idref that
\* names a manifest item of its volume replaced by its namespaced id
RECURSIVE ExpectedSpine(_)
ExpectedSpine(n) ==
    IF n = 0 THEN <<>>
    ELSE ExpectedSpine(n - 1)
             \o [s \in 1..Len(Resolvable(Vol(n - 1))) |->
                    Namespaced(n - 1, Resolvable(Vol(n - 1))[s])]

\* C13: at every point of a merge the merged spine is the concatenation,
\* in input order, of the spines of the volumes processed so far, every
\* idref replaced by its namespaced id, relative order kept, leaving out
\* only the itemrefs without idref or whose idref names no manifest item
\* of the same volume; a completed merge has processed every volume.
C13_SpineIsConcatenation ==
    /\ spine = ExpectedSpine(Len(volume_nav_items))
    /\ Done => Len(volume_nav_items) = NVols

\* C13 witness: a completed merge whose second volume has itemrefs that
\* are left out between itemrefs that are kept, after a first volume with
\* a spine of its own
C13_Witness ==
    /\ Done
    /\ NVols >= 2
    /\ Len(Resolvable(Vol(0))) >= 1
    /\ Len(Resolvable(Vol(1))) >= 2
    /\ Len(Resolvable(Vol(1))) < Len(Vol(1).spine)
    /\ Len(spine) = Len(Resolvable(Vol(0))) + Len(Resolvable(Vol(1)))

\* every manifest item of the volumes 0..n-1 as <<k, i>>, in input order
\* and, inside a volume, in manifest order
RECURSIVE AllItems(_)
AllItems(n) ==
    IF n = 0 THEN <<>>
    ELSE AllItems(n - 1)
             \o [i \in 1..Len(Vol(n - 1).manifest) |-> <<n - 1, i>>]

\* the archive path item i of volume k is copied to: under the directory
\* of the first volume's package document, below "v{k}/" for k > 0
DestOf(k, i) ==
    Under(DirOf(Vol(0).opf_path),
          IF k = 0 THEN Vol(k).manifest[i].href
          ELSE <<"v">> \o ToStr(k) \o <<"/">> \o Vol(k).manifest[i].href)

\* the destination paths of a list of items, each path at its first item
RECURSIVE FirstWrites(_, _)
FirstWrites(items, seen) ==
    IF items = <<>> THEN <<>>
    ELSE LET d == DestOf(Head(items)[1], Head(items)[2])
         IN  IF d \in seen THEN FirstWrites(Tail(items), seen)
             ELSE <<[path |-> d, kind |-> "resource"]>>
                      \o FirstWrites(Tail(items), seen \cup {d})

\* the writes of a merge that runs to its end, in the order the claim
\* gives them
ExpectedWrites ==
    <<[path |-> MimetypePath, kind |-> "mimetype"],
      [path |-> ContainerPath, kind |-> "container"]>>
        \o FirstWrites(AllItems(NVols), {})
        \o <<[path |-> Under(DirOf(Vol(0).opf_path), NavHref), kind |-> "nav"],
             [path |-> Vol(0).opf_path, kind |-> "opf"]>>

\* the path and kind of every entry written so far, in the order written
WritesSoFar ==
    [n \in 1..Len(out_zip) |->
        [path |-> out_zip[n].path, kind |-> out_zip[n].kind]]

\* C14: in every merge that opens the output archive the writes happen in
\* this order: the uncompressed mimetype entry, the container pointer
\* naming the first volume's package document path, the resources of
\* volume 0, 1, 2, ... in input order, the synthesized navigation
\* document, and last the merged package document, written exactly once
\* at the path the container pointer names.  A merge that stops early has
\* written a beginning of that sequence.
C14_WriteOrder ==
    (\E n \in 1..Len(io) : io[n].op = "open_out") =>
        /\ Len(out_zip) >= 2
        /\ Len(out_zip) <= Len(ExpectedWrites)
        /\ WritesSoFar = SubSeq(ExpectedWrites, 1, Len(out_zip))
        /\ out_zip[1].compress_type = "ZIP_STORED"
        /\ out_zip[2].src = Vol(0).opf_path
        /\ Done <=> Len(out_zip) = Len(ExpectedWrites)
        /\ Done =>
               /\ {n \in 1..Len(out_zip) : out_zip[n].kind = "opf"}
                      = {Len(out_zip)}
               /\ out_zip[Len(out_zip)].path = out_zip[2].src

\* C14 witness: a completed merge of two volumes wrote resources of both,
\* the package document lying in a directory of the archive
C14_Witness ==
    /\ Done
    /\ NVols = 2
    /\ DirOf(Vol(0).opf_path) # <<>>
    /\ \E n \in 3..Len(out_zip) : out_zip[n].path = DestOf(0, 1)
    /\ \E n \in 4..Len(out_zip) : out_zip[n].path = DestOf(1, 1)
    /\ out_zip[Len(out_zip)].kind = "opf"

\* the positions of io with the given operation
OpsAt(op) == {n \in 1..Len(io) : io[n].op = op}

\* the number of input archives open after the first n operations
OpenInputs(n) ==
    Cardinality({m \in OpsAt("open_in") : m <= n})
        - Cardinality({m \in OpsAt("close_in") : m <= n})

\* every close_in closes the input archive opened last
ClosesTheOpenOne ==
    \A n \in OpsAt("close_in") :
        \E m \in OpsAt("open_in") :
            /\ m < n
            /\ io[m].arg = io[n].arg
            /\ \A h \in (m + 1)..(n - 1) : io[h].op \notin {"open_in", "close_in"}

\* at most one input archive is open at any point, each is closed before
\* the next is opened, and the output is opened at most once
OneInputAtATime ==
    /\ \A n \in 0..Len(io) : OpenInputs(n) \in {0, 1}
    /\ ClosesTheOpenOne
    /\ Cardinality(OpsAt("open_out")) <= 1
    /\ out_open <=> (OpsAt("open_out") # {} /\ OpsAt("close_out") = {})

\* the package document has been written
DescriptorWritten == \E n \in 1..Len(out_zip) : out_zip[n].kind = "opf"

\* C15 as stated: at every point of a merge at most one input archive is
\* open, each is closed before the next is opened, the output archive is
\* opened once and closed only after the package document was written.
C15_ClosedOnlyAfterDescriptor ==
    /\ OneInputAtATime
    /\ OpsAt("close_out") # {} => DescriptorWritten

\* C15 amended: at most one input archive is open at any point and each is
\* closed before the next is opened; the output archive is opened at most
\* once, exactly once in a merge that completes, and there it is closed
\* right after the package document was written; a merge that fails after
\* the output was opened closes the input archive and the output archive
\* on its way out, without a package document in it.
C15_ArchiveLifetimes ==
    /\ OneInputAtATime
    /\ Ended => OpenInputs(Len(io)) = 0 /\ ~out_open
    /\ \A n \in OpsAt("close_out") : n = Len(io) /\ Ended
    /\ Done => /\ Cardinality(OpsAt("open_out")) = 1
               /\ Cardinality(OpsAt("close_out")) = 1
               /\ DescriptorWritten
               /\ io[Len(io) - 1] = Op("write", out_zip[Len(out_zip)].path)
               /\ out_zip[Len(out_zip)].kind = "opf"
    /\ pc = "failed" => ~DescriptorWritten

\* C15 witness: a completed merge of two volumes opened the first archive
\* for its pointer and then each archive in turn
C15_Witness ==
    /\ Done
    /\ NVols = 2
    /\ Cardinality(OpsAt("open_in")) = 3
    /\ Cardinality(OpsAt("close_in")) = 3
    /\ io[Len(io)].op = "close_out"

\* the synthesized navigation document as written to the archive
WrittenNav ==
    out_zip[CHOOSE n \in 1..Len(out_zip) : out_zip[n].kind = "nav"].src

\* the destination href of the resource the first volume's first
\* resolvable itemref names
FirstResolvableHref ==
    Copied(0, CHOOSE i \in 1..Len(Vol(0).manifest) :
                  Vol(0).manifest[i].id = Resolvable(Vol(0))[1]).href

\* C16: the synthesized navigation document has three levels: its root
\* list holds a single book-title node linked to the first volume's first
\* resolvable href, that node holds one subtree per input volume in input
\* order, and each volume holds its chapter entries; the document is
\* registered as exactly one manifest entry flagged as navigation document.
C16_ThreeLevels ==
    (Done /\ Resolvable(Vol(0)) # <<>>) =>
        /\ Len(WrittenNav.ol_root) = 1
        /\ WrittenNav.ol_root[1].href = FirstResolvableHref
        /\ Len(WrittenNav.ol_root[1].ol) = NVols
        /\ Cardinality(NavFlagged(manifest)) = 1

\* the resource entries of the output archive
ResourceEntries == SelectSeq(out_zip, LAMBDA e : e.kind = "resource")

\* C17: the integer a completed merge returns is the sum over the input
\* volumes of the number of their manifest items, which is the number of
\* entries of the merged manifest minus the synthesized navigation entry;
\* an item whose destination path was already written is counted too.
C17_ReturnsItemCount ==
    Done =>
        /\ result = Offset(NVols)
        /\ result = Len(manifest) - 1
        /\ result >= Len(ResourceEntries)

\* C17 witness: a completed merge of two volumes returned a count larger
\* than the number of resources it wrote, an item's destination having
\* been written before
C17_Witness ==
    /\ Done
    /\ NVols = 2
    /\ result = Len(Vol(0).manifest) + Len(Vol(1).manifest)
    /\ result > Len(ResourceEntries)

\* the archive member that holds the resource item i of volume k names:
\* the href under the package document's directory as it is spelled, else
\* percent-decoded, else with its spaces encoded
SourceMember(k, i) ==
    LET p == Under(DirOf(Vol(k).opf_path), Vol(k).manifest[i].href)
    IN  IF p \in Vol(k).files THEN p
        ELSE IF unquote(p) \in Vol(k).files THEN unquote(p)
        ELSE EncodeSpaces(p)

\* for a list of items, the destination path and the source bytes (the
\* archive and its member) of each path's first item
RECURSIVE FirstCopies(_, _)
FirstCopies(items, seen) ==
    IF items = <<>> THEN <<>>
    ELSE LET k == Head(items)[1]
             i == Head(items)[2]
         IN  IF DestOf(k, i) \in seen THEN FirstCopies(Tail(items), seen)
             ELSE <<[path |-> DestOf(k, i),
                     src  |-> <<Vol(k).name>> \o SourceMember(k, i)]>>
                      \o FirstCopies(Tail(items), seen \cup {DestOf(k, i)})

\* the destination path and payload of every resource entry written
ResourcePayloads ==
    [n \in 1..Len(ResourceEntries) |->
        [path |-> ResourceEntries[n].path, src |-> ResourceEntries[n].src]]

\* C18: the resource entries of a completed merge are a function of the
\* ordered input list alone: whatever the output path and what was there
\* before, every resource entry has the same destination path and the
\* same payload, and the payload is the bytes of the source resource the
\* entry was copied from.  Two merges of the same list into two outputs
\* therefore agree entry by entry; so do their mimetype and container
\* entries.
C18_PayloadsFromInputsOnly ==
    Done =>
        /\ ResourcePayloads = FirstCopies(AllItems(NVols), {})
        /\ \A n \in 1..Len(ResourceEntries) :
               \E k \in 0..(NVols - 1) :
                   /\ ResourceEntries[n].src[1] = Vol(k).name
                   /\ Tail(ResourceEntries[n].src) \in Vol(k).files
        /\ SubSeq(out_zip, 1, 2) = BootstrapEntries(Vol(0).opf_path)

\* C18 witness: a completed merge of two volumes copied resources of
\* both, one of the second volume's stored under another spelling than
\* the manifest's
C18_Witness ==
    /\ Done
    /\ NVols = 2
    /\ \E n \in 1..Len(io) : io[n] = Op("open_out", <<>>)
    /\ \E n \in 1..Len(ResourceEntries) :
           ResourceEntries[n].src[1] = Vol(0).name
    /\ \E n \in 1..Len(ResourceEntries) :
           /\ ResourceEntries[n].src[1] = Vol(1).name
           /\ ResourceEntries[n].path
                  # <<"v", "1", "/">> \o Tail(ResourceEntries[n].src)

\* the legacy navigation map the volume's spine designates: <<doc>>, <<>>
\* when the spine names none or it cannot be read
SourceNcx(vol) ==
    IF vol.toc = <<>> \/ FindById(vol.manifest, vol.toc) = <<>> THEN <<>>
    ELSE ReadXml(vol, Under(DirOf(vol.opf_path),
                            FindById(vol.manifest, vol.toc)[1]))

\* the first source of a volume's table of contents that succeeds, in the
\* order navigation document, legacy map, spine
FirstSourceThatSucceeds(vol) ==
    IF SourceNav(vol) # <<>> /\ SourceNav(vol)[1].nav = "ol" THEN "nav"
    ELSE IF SourceNcx(vol) # <<>> /\ SourceNcx(vol)[1].navMap THEN "ncx"
    ELSE "spine"

\* the volume's package can be opened and every resource it declares,
\* its navigation document aside, is in its archive
SoundButForNav(vol) ==
    /\ vol.is_file
    /\ OpenError(vol) = ""
    /\ \A i \in 1..Len(vol.manifest) :
           \/ FindNavHref(vol.manifest) = <<vol.manifest[i].href>>
           \/ FirstPresent(vol, Candidates(Under(DirOf(vol.opf_path),
                                                 vol.manifest[i].href))) # <<>>

\* C19: each volume contributes exactly one TOC subtree, built from the
\* first source that succeeds in the order navigation document, legacy
\* map, spine: a volume whose declared navigation document is missing,
\* unparseable or without list and whose spine designates a readable
\* legacy map gets its subtree from the map; a navigation document or map
\* that fails never aborts the merge.
C19_FirstSourceThatSucceeds ==
    /\ Done =>
           /\ Len(volume_nav_items) = NVols
           /\ \A k \in 0..(NVols - 1) :
                  volume_nav_items[k + 1].from = FirstSourceThatSucceeds(Vol(k))
    /\ (Ended /\ NVols > 0 /\ \A k \in 0..(NVols - 1) : SoundButForNav(Vol(k)))
           => Done

\* the nesting of a list: for every entry the nesting of its nested list
RECURSIVE Shape(_)
Shape(ol) == [n \in 1..Len(ol) |-> Shape(ol[n].sub)]

\* C20: for a volume whose TOC comes from a navigation document, the
\* links found at any nesting depth of its list are the direct children of
\* the volume's node, in document order, with no nested list below them;
\* for a volume whose TOC comes from a legacy navigation map the nesting of
\* the points is kept.
C20_NavFlattenedNcxNested ==
    Done =>
        \A k \in 0..(NVols - 1) :
            LET li_vol == volume_nav_items[k + 1]
            IN  /\ li_vol.from = "nav" =>
                       /\ Len(li_vol.ol) = Len(Links(SourceNav(Vol(k))[1].ol))
                       /\ \A n \in 1..Len(li_vol.ol) :
                              /\ li_vol.ol[n].sub = <<>>
                              /\ li_vol.ol[n].href # <<>>
                /\ li_vol.from = "ncx" =>
                       Shape(li_vol.ol) = Shape(SourceNcx(Vol(k))[1].points)


\* the links of the document volume k's subtree was built from, in
\* document order: its navigation document's, or its legacy map's
SourceLinks(k) ==
    IF volume_nav_items[k + 1].from = "nav"
    THEN Links(SourceNav(Vol(k))[1].ol)
    ELSE IF volume_nav_items[k + 1].from = "ncx"
    THEN Links(SourceNcx(Vol(k))[1].points)
    ELSE <<>>

\* the directory of that document, from the package document's directory
TocDir(k) ==
    IF volume_nav_items[k + 1].from = "nav"
    THEN DirOf(FindNavHref(Vol(k).manifest)[1])
    ELSE DirOf(FindById(Vol(k).manifest, Vol(k).toc)[1])

\* the path link n of that document names, from the package document's
\* directory
TocTarget(k, n) == Under(TocDir(k), PathOf(SourceLinks(k)[n]))

\* the path of link n, verbatim or else percent-decoded, is the href of
\* manifest item i of volume k
LinkNames(k, n, i) ==
    /\ PathOf(SourceLinks(k)[n]) # <<>>
    /\ \/ TocTarget(k, n) = Vol(k).manifest[i].href
       \/ /\ \A j \in 1..Len(Vol(k).manifest) :
                 TocTarget(k, n) # Vol(k).manifest[j].href
          /\ unquote(TocTarget(k, n)) = Vol(k).manifest[i].href

\* C21: after a completed merge, every link of a volume's navigation
\* document or legacy map whose path, verbatim or after percent-decoding,
\* equals a manifest href of the volume is rewritten to that entry's
\* destination href followed by the link's own fragment.
C21_LinkRewritten ==
    Done =>
        \A k \in 0..(NVols - 1) : \A n \in 1..Len(SourceLinks(k)) :
            \A i \in 1..Len(Vol(k).manifest) :
                LinkNames(k, n, i) =>
                    Links(volume_nav_items[k + 1].ol)[n] =
                        Copied(k, i).href \o FragmentOf(SourceLinks(k)[n])


\* the archive member read for item i of volume k: the first of the
\* nominal path, the percent-decoded path and the path with its spaces
\* written %20 that the volume's archive holds, as <<member>>; <<>> when
\* it holds none of the three
ReadFrom(k, i) ==
    LET p == Under(DirOf(Vol(k).opf_path), Vol(k).manifest[i].href)
        names == ArchiveNames(Vol(k))
    IN  IF p \in names THEN <<p>>
        ELSE IF unquote(p) \in names THEN <<unquote(p)>>
        ELSE IF EncodeSpaces(p) \in names THEN <<EncodeSpaces(p)>>
        ELSE <<>>

\* the copy loop is about to read the resource of the current item
AboutToRead ==
    /\ pc = "item"
    /\ item_idx <= Len(CurVol.manifest)
    /\ DestOf(vol_idx, item_idx) \notin written_files

\* C22: whenever the copy loop reads a manifest resource, it takes the
\* first of the three candidates (nominal path, percent-decoded, spaces as
\* %20) that the source archive holds and writes that member's bytes at
\* the destination path; it raises, writing nothing, exactly when the
\* archive holds none of the three.
C22_FirstCandidatePresent ==
    [][AboutToRead =>
          LET r == ReadFrom(vol_idx, item_idx)
          IN  IF r = <<>>
              THEN /\ pc' = "failed"
                   /\ err' = "RuntimeError"
                   /\ out_zip' = out_zip
              ELSE /\ pc' = "item"
                   /\ err' = ""
                   /\ out_zip' = Append(out_zip,
                          Entry(DestOf(vol_idx, item_idx), "resource",
                                <<CurVol.name>> \o r[1]))]_vars

\* member is what a resource entry of the output holds for volume k
CopiedFrom(k, member) ==
    \E n \in 1..Len(ResourceEntries) :
        ResourceEntries[n].src = <<Vol(k).name>> \o member

\* C22 witness: a completed merge copied, from one volume, a resource
\* stored under its nominal and its decoded path (the nominal one was
\* taken), one stored under its decoded path and with %20 (the decoded one
\* was taken) and one stored only with %20 for its spaces
C22_Witness ==
    /\ Done
    /\ \E k \in 0..(NVols - 1) :
           \E i1, i2, i3 \in 1..Len(Vol(k).manifest) :
               LET p(i) == Under(DirOf(Vol(k).opf_path), Vol(k).manifest[i].href)
                   names == ArchiveNames(Vol(k))
               IN  /\ {p(i1), unquote(p(i1))} \subseteq names
                   /\ unquote(p(i1)) # p(i1)
                   /\ CopiedFrom(k, p(i1))
                   /\ p(i2) \notin names
                   /\ {unquote(p(i2)), EncodeSpaces(p(i2))} \subseteq names
                   /\ unquote(p(i2)) # EncodeSpaces(p(i2))
                   /\ CopiedFrom(k, unquote(p(i2)))
                   /\ {p(i3), unquote(p(i3))} \cap names = {}
                   /\ CopiedFrom(k, EncodeSpaces(p(i3)))

(***************************************************************************)
(* The graphical caller.  App.on_run starts a Worker thread that calls     *)
(* merge_epubs and reports through its fin signal; the signal is queued to *)
(* the window's thread, where App.on_fin receives it.  The variables of    *)
(* the single call above are not used here and keep their initial values.  *)
(***************************************************************************)
\* the most merges started from one window
MaxRuns == 2

\* the exceptions "except Exception" catches, among those the call raises
Exceptions == {"FileNotFoundError", "KeyError", "RuntimeError", "TypeError"}

\* the ways the call merge_epubs(out, data, title=..., ...) of a Worker
\* can end, for a list of n volumes: it returns, or it raises one of the
\* exceptions of the merge (FileNotFoundError, KeyError, RuntimeError) or
\* the TypeError of a call whose keywords the function does not take; an
\* empty list raises SystemExit, which is no Exception
CallOutcomes(n) ==
    IF n = 0 THEN {"SystemExit", "TypeError"}
    ELSE {"returns"} \cup Exceptions

\* what the window shows while idle and while a merge runs
Idle == [enabled |-> TRUE, progress |-> FALSE, btn_run_text |-> "start"]

Busy == [enabled |-> FALSE, progress |-> TRUE, btn_run_text |-> "merging"]

\* the window's widgets set to one of the two
Shows(look) ==
    /\ enabled' = look.enabled
    /\ progress' = look.progress
    /\ btn_run_text' = look.btn_run_text

\* QMessageBox: a modal box opens over the window
Box(kind, text) == [kind |-> kind, text |-> text]

\* App.on_run, the slot of btn_run.clicked: a click reaches the button
\* only while the window is enabled and no modal box is open.  count is
\* the number of volumes in the tree, has_out whether the output field is
\* filled, cover the cover path: "none", "exists" or "missing"
OnRun ==
    /\ enabled
    /\ dialogs = <<>>
    /\ Len(wk) < MaxRuns
    /\ \E count \in 0..MaxVols, has_out \in BOOLEAN,
          cover \in {"none", "exists", "missing"} :
           IF count = 0
           THEN UNCHANGED guivars
           ELSE IF ~has_out
           THEN /\ dialogs' = Append(dialogs, Box("warning", "no output path"))
                /\ UNCHANGED <<enabled, progress, btn_run_text, wk,
                               fin_emitted, fin_queue>>
           ELSE IF cover = "missing"
           THEN /\ dialogs' = Append(dialogs, Box("warning", "no cover"))
                /\ UNCHANGED <<enabled, progress, btn_run_text, wk,
                               fin_emitted, fin_queue>>
           ELSE /\ Shows(Busy)
                /\ wk' = Append(wk, [data |-> count, state |-> "running"])
                /\ UNCHANGED <<fin_emitted, fin_queue, dialogs>>
    /\ UNCHANGED <<input_paths, outvars, io, pc, err, result, opfvars,
                   written_files, total_items, vol_idx, item_idx, volvars>>

\* the fin signal Worker k emits for an outcome of the call
Fin(k, outcome) ==
    IF outcome = "returns"
    THEN [wk |-> k, ok |-> TRUE, msg |-> "Success", p |-> "out"]
    ELSE [wk |-> k, ok |-> FALSE, msg |-> outcome, p |-> ""]

\* a variant of WorkerRun: an exception of the call leaves run()
WorkerRunUncaught ==
    \E k \in 1..Len(wk) :
        /\ wk[k].state = "running"
        /\ \E outcome \in CallOutcomes(wk[k].data) :
               IF outcome = "returns"
               THEN /\ fin_emitted' = Append(fin_emitted, Fin(k, outcome))
                    /\ fin_queue' = Append(fin_queue, Fin(k, outcome))
                    /\ wk' = [wk EXCEPT ![k].state = "finished"]
               ELSE /\ wk' = [wk EXCEPT ![k].state = "died"]
                    /\ UNCHANGED <<fin_emitted, fin_queue>>
        /\ UNCHANGED <<enabled, progress, btn_run_text, dialogs>>
        /\ UNCHANGED <<input_paths, outvars, io, pc, err, result, opfvars,
                       written_files, total_items, vol_idx, item_idx, volvars>>

\* Worker.run in its own thread: the call ends, and fin is emitted with
\* the result or with the message of the exception caught; an exception
\* that is no Exception ends the thread without a signal
WorkerRun ==
    \E k \in 1..Len(wk) :
        /\ wk[k].state = "running"
        /\ \E outcome \in CallOutcomes(wk[k].data) :
               IF outcome = "returns" \/ outcome \in Exceptions
               THEN /\ fin_emitted' = Append(fin_emitted, Fin(k, outcome))
                    /\ fin_queue' = Append(fin_queue, Fin(k, outcome))
                    /\ wk' = [wk EXCEPT ![k].state = "finished"]
               ELSE /\ wk' = [wk EXCEPT ![k].state = "died"]
                    /\ UNCHANGED <<fin_emitted, fin_queue>>
        /\ UNCHANGED <<enabled, progress, btn_run_text, dialogs>>
        /\ UNCHANGED <<input_paths, outvars, io, pc, err, result, opfvars,
                       written_files, total_items, vol_idx, item_idx, volvars>>

\* App.on_fin, called by the window's event loop for the oldest queued
\* signal: the window is enabled again and a modal box tells the result
OnFin ==
    /\ fin_queue # <<>>
    /\ Shows(Idle)
    /\ dialogs' = Append(dialogs,
           IF Head(fin_queue).ok
           THEN Box("information", "done")
           ELSE Box("critical", Head(fin_queue).msg))
    /\ fin_queue' = Tail(fin_queue)
    /\ UNCHANGED <<wk, fin_emitted>>
    /\ UNCHANGED <<input_paths, outvars, io, pc, err, result, opfvars,
                   written_files, total_items, vol_idx, item_idx, volvars>>

\* the user closes the modal box on top; exec() returns
CloseBox ==
    /\ dialogs # <<>>
    /\ dialogs' = SubSeq(dialogs, 1, Len(dialogs) - 1)
    /\ UNCHANGED <<enabled, progress, btn_run_text, wk, fin_emitted,
                   fin_queue>>
    /\ UNCHANGED <<input_paths, outvars, io, pc, err, result, opfvars,
                   written_files, total_items, vol_idx, item_idx, volvars>>

\* the window right after construction; no call of the command line
InitGui ==
    /\ Init
    /\ input_paths = <<>>
    /\ ~out_dir
    /\ out_file = "absent"

NextGui ==
    \/ OnRun
    \/ WorkerRun
    \/ OnFin
    \/ CloseBox

\* a started thread runs and merge_epubs ends; the event loop of the
\* window's thread delivers every queued signal.  Nothing makes the user
\* click.
SpecGui ==
    /\ InitGui
    /\ [][NextGui]_vars
    /\ WF_vars(WorkerRun)
    /\ WF_vars(OnFin)

\* the fin signals Worker k has emitted so far
FinsOf(k) == SelectSeq(fin_emitted, LAMBDA s : s.wk = k)

\* Worker k's fin signal has been received by on_fin
Received(k) ==
    /\ FinsOf(k) # <<>>
    /\ \A n \in 1..Len(fin_queue) : fin_queue[n].wk # k

\* Worker k's merge is under way: started, its fin not yet received
UnderWay(k) == k \in 1..Len(wk) /\ ~Received(k)

\* in every state: a Worker that has ended has emitted exactly one fin
\* signal and a running one none; the window is disabled exactly while a
\* merge is under way; at most one Worker runs
GuiSafe ==
    /\ \A k \in 1..Len(wk) :
           Len(FinsOf(k)) = (IF wk[k].state = "running" THEN 0 ELSE 1)
    /\ enabled <=> \A k \in 1..Len(wk) : ~UnderWay(k)
    /\ Cardinality({k \in 1..Len(wk) : wk[k].state = "running"}) <= 1
    /\ Cardinality({k \in 1..Len(wk) : UnderWay(k)}) <= 1

\* the modal box on top reports the failure of Worker k with the message
\* of its fin signal
Reported(k) ==
    /\ Received(k)
    /\ ~FinsOf(k)[1].ok
    /\ FinsOf(k)[1].msg \in Exceptions
    /\ dialogs # <<>>
    /\ dialogs[Len(dialogs)] = Box("critical", FinsOf(k)[1].msg)

\* C23: every merge started by on_run ends with exactly one fin signal,
\* which on_fin receives with the window enabled again; from on_run until
\* then the window is disabled, so at most one Worker runs at a time; a
\* merge that raises has its message shown in a modal box, and the window
\* is never left disabled.
C23_OneFinPerMerge ==
    /\ []GuiSafe
    /\ \A k \in 1..MaxRuns :
           /\ UnderWay(k) ~> (Received(k) /\ enabled)
           /\ (UnderWay(k) /\ FinsOf(k) # <<>> /\ ~FinsOf(k)[1].ok)
                  ~> Reported(k)

\* C23 witness: a first merge raised, its message was shown and the box
\* closed; a second merge was started from the same window and runs
C23_Witness ==
    /\ Len(wk) = 2
    /\ Received(1)
    /\ ~FinsOf(1)[1].ok
    /\ wk[2].state = "running"
    /\ ~enabled
    /\ dialogs = <<>>

=============================================================================
